---- MODULE Spec2Model ----
(***************************************************************************)
(* A model of the session store of TeamNight/RustSessions: the session     *)
(* record (SessionInner), the shared handle (SessionData =                 *)
(* Arc<Mutex<SessionInner>>), the in-memory map (LocalSessionMap, an       *)
(* RwLock<HashMap<String, SessionData>>), the SessionStore facade and the  *)
(* scoped access of CookieSession.                                         *)
(*                                                                         *)
(* Every caller is a thread with a program counter.  A lock acquisition    *)
(* is a step of its own, guarded by the lock being free, so a blocked      *)
(* caller is a thread whose next step is disabled.                         *)
(***************************************************************************)
EXTENDS Integers, FiniteSets, Sequences, TLC

\* Bounds of the model.
NThreads == 3
NRecords == 2
MaxTime == 1
\* SpecConc: the callers that run the store's operations in any mix.
NMixed == 2
\* SpecAttach: the most session configs that are registered with the fairing.
MaxConfigs == 4

\* chrono::MIN_DATETIME, the "never expires" value of expires: it lies below
\* every time the clock shows (the clock starts at 0).
MIN_DATETIME == -1

Threads == 1 .. NThreads
Handles == 1 .. NRecords
\* Session ids, as many as there are records: the id generator (id_gen) hands
\* the h-th record the id GenId(h).
Ids == 1 .. NRecords
GenId(h) == h
\* CookieSessionConfig.expiration values: 0 is the zero duration.
Configs == {0, 1}
\* Attribute keys: one per caller, so that concurrent callers use distinct keys.
Keys == Threads
\* The attribute value the callers insert.
Attr == [type |-> "String", val |-> "alice"]
\* The types T of attributes, and the values of those types that are inserted.
Types == {"String", "u32"}
AttrValues == {Attr, [type |-> "u32", val |-> "7"]}

VARIABLES
    now,       \* Utc::now()
    inner,     \* inner[h]: the SessionInner behind handle h
    mutex,     \* mutex[h]: the Mutex of handle h: its holder (0: free), poisoned
    sessions,  \* LocalSessionMap.sessions: id -> handle (0: no entry)
    rwlock,    \* the RwLock around sessions: its writer (0: none), poisoned
    pc,        \* pc[t]: where caller t is
    frame,     \* frame[t]: the arguments and locals of the call t is in
    ret,       \* what the call that ended in the last step returned, and to whom
    inserted,  \* history: inserted[h], the keys whose insert into h has returned
    jar,       \* the client's cookie jar: the session id in its cookie (0: no cookie)
    configs,   \* Sessions.configs: the Vec of the session configs registered
    rocket     \* the managed state of the Rocket instance: the store, the configs

vars == <<now, inner, mutex, sessions, rwlock, pc, frame, ret, inserted, jar, configs, rocket>>

\* Option<T>: None is the empty set, Some(x) the singleton.
None == {}
Some(x) == {x}

EmptyAttributes == [k \in {} |-> Attr]

\* A handle no SessionInner::new has filled yet.
NoInner ==
    [alive |-> FALSE, id |-> 0, created |-> 0, last_accessed |-> 0,
     expires |-> 0, attributes |-> EmptyAttributes, config |-> 0]

NoFrame ==
    [id |-> 0, h |-> 0, f |-> "", key |-> 0, snap |-> EmptyAttributes,
     todo |-> {}, cur |-> 0, removed |-> 0, before |-> [i \in Ids |-> 0],
     expired |-> {}, keep |-> FALSE, attr |-> Attr, ty |-> "",
     i |-> 0, len |-> 0, registered |-> << >>]

\* A Rocket instance that manages no state yet.
NoState == [store |-> FALSE, configs |-> << >>]

\* What a call returned: the caller, the call, the kind of result (Ok, Err,
\* None, Some, true, false, or panic when the call unwound), and the count or
\* handle in it.  NoRet: the last step ended no call.
NoRet == [t |-> 0, op |-> "", val |-> "", n |-> 0]

----------------------------------------------------------------------------
\* SessionConfig and SessionInner

\* CookieSessionConfig::expiration_duration: a zero duration means None.
expiration_duration(config) ==
    IF config = 0 THEN None ELSE Some(config)

\* SessionInner::new
SessionInner_new(id, config, creation_time) ==
    [alive |-> TRUE,
     id |-> id,
     created |-> creation_time,
     last_accessed |-> creation_time,
     expires |-> IF expiration_duration(config) = None
                 THEN MIN_DATETIME
                 ELSE creation_time + (CHOOSE d \in expiration_duration(config) : TRUE),
     attributes |-> EmptyAttributes,
     config |-> config]

\* Mutant of is_expired: the comparison is strict.
is_expired_Strict(s, current_time) ==
    IF s.expires < current_time THEN TRUE ELSE FALSE

\* SessionInner::is_expired: expires <= Utc::now()
is_expired(s, current_time) ==
    IF s.expires <= current_time THEN TRUE ELSE FALSE

\* Mutant of update_time: the new expires is counted from created.
update_time_FromCreated(s, current_time) ==
    [s EXCEPT !.last_accessed = current_time,
              !.expires = IF expiration_duration(s.config) = None
                          THEN @
                          ELSE s.created
                               + (CHOOSE d \in expiration_duration(s.config) : TRUE)]

\* SessionInner::update_time
update_time(s, current_time) ==
    [s EXCEPT !.last_accessed = current_time,
              !.expires = IF expiration_duration(s.config) = None
                          THEN @
                          ELSE current_time
                               + (CHOOSE d \in expiration_duration(s.config) : TRUE)]

\* SessionInner::set_id
set_id(s, new_id) == [s EXCEPT !.id = new_id]

\* Mutant of invalidate: expires is left as it is.
invalidate_Noop(s) == s

\* SessionInner::invalidate
invalidate(s) == [s EXCEPT !.expires = s.created]

\* SessionInner::insert on the attributes read in snap: HashMap::insert
\* overwrites the value of an existing key.
Inner_insert(snap, key, attribute) ==
    [k \in DOMAIN snap \cup {key} |-> IF k = key THEN attribute ELSE snap[k]]

\* SessionInner::remove: HashMap::remove of the key.
Inner_remove(attributes, key) ==
    [k \in DOMAIN attributes \ {key} |-> attributes[k]]

\* data.as_any_ref() on data: &Box<dyn Attribute>.  The receiver &Box<dyn
\* Attribute> matches as_any_ref(&self) with Self = Box<dyn Attribute>, which
\* is Any and so has the blanket impl<T: Any> AsAny for T: the method chosen is
\* the Box's own, before any deref to the value inside, and the &dyn Any it
\* answers is the Box.
as_any_ref(data) == [type |-> "Box<dyn Attribute>", val |-> data]

\* SessionInner::get_attribute::<T>: attr.is::<T>() and downcast_ref::<T>()
\* compare T with the type of what as_any_ref answered.
get_attribute(s, key, T) ==
    IF key \in DOMAIN s.attributes
    THEN LET attr == as_any_ref(s.attributes[key])
         IN  IF attr.type = T THEN Some(attr.val) ELSE None
    ELSE None

----------------------------------------------------------------------------
Init ==
    /\ now = 0
    /\ inner = [h \in Handles |-> NoInner]
    /\ mutex = [h \in Handles |-> [holder |-> 0, poisoned |-> FALSE]]
    /\ sessions = [i \in Ids |-> 0]
    /\ rwlock = [writer |-> 0, poisoned |-> FALSE]
    /\ pc = [t \in Threads |-> "idle"]
    /\ frame = [t \in Threads |-> NoFrame]
    /\ ret = NoRet
    /\ inserted = [h \in Handles |-> {}]
    /\ jar = 0
    /\ configs = << >>
    /\ rocket = NoState

\* The clock advances.
Tick ==
    /\ now < MaxTime
    /\ now' = now + 1
    /\ UNCHANGED <<inner, mutex, sessions, rwlock, pc, frame, inserted, jar, configs, rocket>>
    /\ ret' = NoRet

\* A caller ends its call with a result; its locals are gone.
Return(t, op, val, n) ==
    /\ pc' = [pc EXCEPT ![t] = "idle"]
    /\ frame' = [frame EXCEPT ![t] = NoFrame]
    /\ ret' = [t |-> t, op |-> op, val |-> val, n |-> n]

\* A caller creates a session record (from_request, the cookie-less branch:
\* SessionData::new(Mutex::new(SessionInner::new(id, config)))).
NewSession(t, h, id, config) ==
    /\ pc[t] = "idle"
    /\ ~inner[h].alive
    /\ inner' = [inner EXCEPT ![h] = SessionInner_new(id, config, now)]
    /\ UNCHANGED <<now, mutex, sessions, rwlock, pc, frame, inserted, jar, configs, rocket>>
    /\ ret' = NoRet

----------------------------------------------------------------------------
\* The two locks

\* Mutex::lock returns once no other caller holds the mutex.
MutexFree(h) == mutex[h].holder = 0

\* Mutant of RwLockFree: a map lock that also waits for the records' locks.
RwLockFree_NoRecordHeld == rwlock.writer = 0 /\ \A h \in Handles : MutexFree(h)

\* RwLock::read and RwLock::write return once no writer holds the lock.  A
\* reader holds it for its lookup only, within one step, so no state has a
\* reader inside.
RwLockFree == rwlock.writer = 0

Lock(h, t) == [mutex EXCEPT ![h].holder = t]
Unlock(h) == [mutex EXCEPT ![h].holder = 0]
\* The guard is dropped by a panic: the mutex is released and poisoned.
Poison(h) == [mutex EXCEPT ![h] = [holder |-> 0, poisoned |-> TRUE]]

----------------------------------------------------------------------------
\* Session::access of CookieSession: lock the record, run the closure, unlock.
\* The closure f is one of the record's operations, or it panics.

AccessCall(t, h, f, key) ==
    /\ pc[t] = "idle"
    /\ inner[h].alive
    /\ pc' = [pc EXCEPT ![t] = "access_lock"]
    /\ frame' = [frame EXCEPT ![t] = [NoFrame EXCEPT !.h = h, !.f = f, !.key = key]]
    /\ UNCHANGED <<now, inner, mutex, sessions, rwlock, inserted, jar, configs, rocket>>
    /\ ret' = NoRet

\* An access whose caller binds the Result it returns to a variable, which
\* lives on after the call: let result = session.access(f).
AccessCallKeep(t, h, f, key) ==
    /\ pc[t] = "idle"
    /\ inner[h].alive
    /\ pc' = [pc EXCEPT ![t] = "access_lock"]
    /\ frame' = [frame EXCEPT ![t] =
                    [NoFrame EXCEPT !.h = h, !.f = f, !.key = key, !.keep = TRUE]]
    /\ UNCHANGED <<now, inner, mutex, sessions, rwlock, inserted, jar, configs, rocket>>
    /\ ret' = NoRet

\* Mutants of AccessCanLock: an access that enters without the lock, and one
\* that waits for every record's lock.
AccessCanLock_Unlocked(t) == TRUE
AccessCanLock_AllRecords(t) == \A h \in Handles : MutexFree(h)

\* self.data.lock(): the only lock an access asks for is its own record's.
AccessCanLock(t) == MutexFree(frame[t].h)

\* match self.data.lock(): Ok(inner) enters the closure; on a poisoned mutex
\* lock() takes the mutex and answers Err(err) with the guard inside err, and
\* Err(err) => Err(err) returns it to the caller: the mutex is released when
\* the caller drops the Result, at once if it is a temporary, later if the
\* caller keeps it.
AccessLock(t) ==
    /\ pc[t] = "access_lock"
    /\ AccessCanLock(t)
    /\ IF mutex[frame[t].h].poisoned
       THEN IF frame[t].keep
            THEN /\ mutex' = Lock(frame[t].h, t)
                 /\ pc' = [pc EXCEPT ![t] = "access_err"]
                 /\ ret' = [t |-> t, op |-> "access", val |-> "Err", n |-> 0]
                 /\ UNCHANGED frame
            ELSE /\ Return(t, "access", "Err", 0)
                 /\ UNCHANGED mutex
       ELSE /\ mutex' = Lock(frame[t].h, t)
            /\ pc' = [pc EXCEPT ![t] = "access_closure"]
            /\ ret' = NoRet
            /\ UNCHANGED frame
    /\ UNCHANGED <<now, inner, sessions, rwlock, inserted, jar, configs, rocket>>

\* The caller drops the Err(err) its access returned, and the guard in it.
DropResult(t) ==
    /\ pc[t] = "access_err"
    /\ mutex' = Unlock(frame[t].h)
    /\ pc' = [pc EXCEPT ![t] = "idle"]
    /\ frame' = [frame EXCEPT ![t] = NoFrame]
    /\ ret' = NoRet
    /\ UNCHANGED <<now, inner, sessions, rwlock, inserted, jar, configs, rocket>>

\* closure(&mut *inner) for update_time and invalidate, then Ok(()): the guard
\* is dropped on return.
AccessClosure(t) ==
    /\ pc[t] = "access_closure"
    /\ frame[t].f \in {"update_time", "invalidate"}
    /\ inner' = [inner EXCEPT ![frame[t].h] =
                    IF frame[t].f = "update_time"
                    THEN update_time(@, now)
                    ELSE invalidate(@)]
    /\ mutex' = Unlock(frame[t].h)
    /\ Return(t, "access", "Ok", 0)
    /\ UNCHANGED <<now, sessions, rwlock, inserted, jar, configs, rocket>>

\* closure(&mut *inner) for insert, first half: HashMap::insert reads the
\* table it is about to change.
AccessInsertRead(t) ==
    /\ pc[t] = "access_closure"
    /\ frame[t].f = "insert"
    /\ frame' = [frame EXCEPT ![t].snap = inner[frame[t].h].attributes]
    /\ pc' = [pc EXCEPT ![t] = "access_insert"]
    /\ UNCHANGED <<now, inner, mutex, sessions, rwlock, inserted, jar, configs, rocket>>
    /\ ret' = NoRet

\* ... second half: the table with the key set is written back; Ok(()).
AccessInsertWrite(t) ==
    /\ pc[t] = "access_insert"
    /\ inner' = [inner EXCEPT ![frame[t].h].attributes =
                    Inner_insert(frame[t].snap, frame[t].key, frame[t].attr)]
    /\ mutex' = Unlock(frame[t].h)
    /\ inserted' = [inserted EXCEPT ![frame[t].h] = @ \cup {frame[t].key}]
    /\ Return(t, "access", "Ok", 0)
    /\ UNCHANGED <<now, sessions, rwlock, jar, configs, rocket>>

\* An access whose closure works on the attributes: |s| s.insert(key,
\* attribute), |s| s.remove(key) or |s| s.get_attribute::<T>(key).
AttrCall(t, h, f, key, attribute, T) ==
    /\ pc[t] = "idle"
    /\ inner[h].alive
    /\ f \in {"insert", "remove", "get_attribute"}
    /\ pc' = [pc EXCEPT ![t] = "access_lock"]
    /\ frame' = [frame EXCEPT ![t] =
                    [NoFrame EXCEPT
                       !.h = h, !.f = f, !.key = key,
                       !.attr = IF f = "insert" THEN attribute ELSE Attr,
                       !.ty = IF f = "get_attribute" THEN T ELSE ""]]
    /\ UNCHANGED <<now, inner, mutex, sessions, rwlock, inserted, jar, configs, rocket>>
    /\ ret' = NoRet

\* closure(&mut *inner) for remove, then Ok(()).
AccessRemove(t) ==
    /\ pc[t] = "access_closure"
    /\ frame[t].f = "remove"
    /\ inner' = [inner EXCEPT ![frame[t].h].attributes = Inner_remove(@, frame[t].key)]
    /\ mutex' = Unlock(frame[t].h)
    /\ inserted' = [inserted EXCEPT ![frame[t].h] = @ \ {frame[t].key}]
    /\ Return(t, "access", "Ok", 0)
    /\ UNCHANGED <<now, sessions, rwlock, jar, configs, rocket>>

\* closure(&mut *inner) for get_attribute: what the closure got is what the
\* caller sees of the call.
AccessGetAttribute(t) ==
    /\ pc[t] = "access_closure"
    /\ frame[t].f = "get_attribute"
    /\ mutex' = Unlock(frame[t].h)
    /\ Return(t, "get_attribute",
              IF get_attribute(inner[frame[t].h], frame[t].key, frame[t].ty) = None
              THEN "None" ELSE "Some", 0)
    /\ UNCHANGED <<now, inner, sessions, rwlock, inserted, jar, configs, rocket>>

\* The closure panics: the unwinding drops the guard and poisons the mutex.
AccessPanic(t) ==
    /\ pc[t] = "access_closure"
    /\ frame[t].f = "panic"
    /\ mutex' = Poison(frame[t].h)
    /\ Return(t, "access", "panic", 0)
    /\ UNCHANGED <<now, inner, sessions, rwlock, inserted, jar, configs, rocket>>

\* An access whose closure reissues the record's id: |s| s.set_id(new_id).
SetIdCall(t, h, new_id) ==
    /\ pc[t] = "idle"
    /\ inner[h].alive
    /\ pc' = [pc EXCEPT ![t] = "access_lock"]
    /\ frame' = [frame EXCEPT ![t] = [NoFrame EXCEPT !.h = h, !.f = "set_id", !.id = new_id]]
    /\ UNCHANGED <<now, inner, mutex, sessions, rwlock, inserted, jar, configs, rocket>>
    /\ ret' = NoRet

\* closure(&mut *inner) for set_id, then Ok(()): the record's id changes; the
\* map, which the closure does not see, keeps the record under its old key.
AccessSetId(t) ==
    /\ pc[t] = "access_closure"
    /\ frame[t].f = "set_id"
    /\ inner' = [inner EXCEPT ![frame[t].h] = set_id(@, frame[t].id)]
    /\ mutex' = Unlock(frame[t].h)
    /\ Return(t, "access", "Ok", 0)
    /\ UNCHANGED <<now, sessions, rwlock, inserted, jar, configs, rocket>>

----------------------------------------------------------------------------
\* LocalSessionMap: list, get, insert, remove.  Each takes the map's lock, which
\* it may have to wait for, does its lookup or update and drops the lock; a
\* poisoned lock makes it panic.

MapCall(t, op, id, h) ==
    /\ pc[t] = "idle"
    /\ op \in {"list", "get", "insert", "remove", "remove_expired", "clear"}
    /\ op = "insert" => inner[h].alive
    /\ pc' = [pc EXCEPT ![t] = op]
    /\ frame' = [frame EXCEPT ![t] =
                    [NoFrame EXCEPT
                       !.id = IF op \in {"get", "insert", "remove"} THEN id ELSE 0,
                       !.h = IF op = "insert" THEN h ELSE 0]]
    /\ UNCHANGED <<now, inner, mutex, sessions, rwlock, inserted, jar, configs, rocket>>
    /\ ret' = NoRet

\* The handles under the ids of the map.
Values(map) == {map[i] : i \in {j \in Ids : map[j] # 0}}

\* LocalSessionMap::list: closure(map.values().collect())
Map_list(t) ==
    /\ pc[t] = "list"
    /\ RwLockFree
    /\ IF rwlock.poisoned
       THEN Return(t, "list", "panic", 0)
       ELSE Return(t, "list", "Ok", Cardinality(Values(sessions)))
    /\ UNCHANGED <<now, inner, mutex, sessions, rwlock, inserted, jar, configs, rocket>>

\* Mutant of Map_get: a get that answers None for an expired record, as the
\* facade's get does.
Map_get_SkipsExpired(t) ==
    /\ pc[t] = "get"
    /\ RwLockFree
    /\ IF rwlock.poisoned
       THEN Return(t, "get", "panic", 0)
       ELSE IF sessions[frame[t].id] # 0 /\ ~is_expired(inner[sessions[frame[t].id]], now)
            THEN Return(t, "get", "Some", sessions[frame[t].id])
            ELSE Return(t, "get", "None", 0)
    /\ UNCHANGED <<now, inner, mutex, sessions, rwlock, inserted, jar, configs, rocket>>

\* LocalSessionMap::get: the handle under id, whatever its expiration.
Map_get(t) ==
    /\ pc[t] = "get"
    /\ RwLockFree
    /\ IF rwlock.poisoned
       THEN Return(t, "get", "panic", 0)
       ELSE IF sessions[frame[t].id] # 0
            THEN Return(t, "get", "Some", sessions[frame[t].id])
            ELSE Return(t, "get", "None", 0)
    /\ UNCHANGED <<now, inner, mutex, sessions, rwlock, inserted, jar, configs, rocket>>

\* LocalSessionMap::insert, and SessionStore::insert, which hands it a clone of
\* the session's handle.
Map_insert(t) ==
    /\ pc[t] = "insert"
    /\ RwLockFree
    /\ IF rwlock.poisoned
       THEN /\ Return(t, "insert", "panic", 0)
            /\ UNCHANGED sessions
       ELSE /\ sessions' = [sessions EXCEPT ![frame[t].id] = frame[t].h]
            /\ Return(t, "insert", "Ok", 0)
    /\ UNCHANGED <<now, inner, mutex, rwlock, inserted, jar, configs, rocket>>

\* LocalSessionMap::remove
Map_remove(t) ==
    /\ pc[t] = "remove"
    /\ RwLockFree
    /\ IF rwlock.poisoned
       THEN /\ Return(t, "remove", "panic", 0)
            /\ UNCHANGED sessions
       ELSE /\ sessions' = [sessions EXCEPT ![frame[t].id] = 0]
            /\ IF sessions[frame[t].id] = 0
               THEN Return(t, "remove", "false", 0)
               ELSE Return(t, "remove", "true", 0)
    /\ UNCHANGED <<now, inner, mutex, rwlock, inserted, jar, configs, rocket>>

----------------------------------------------------------------------------
\* LocalSessionMap::remove_expired and clear: HashMap::retain under the map's
\* write lock, locking each record in turn.  retain visits the entries in the
\* table's order, which the caller does not choose: the next entry is any of
\* those left, and the sweep waits for that entry's mutex.

\* The ids that hold a record.
Present(map) == {i \in Ids : map[i] # 0}

\* The entries retain has yet to visit after cur, and the one it visits next
\* (0: none is left).
NextEntries(todo) == IF todo = {} THEN {0} ELSE todo

RemoveExpiredLock(t) ==
    /\ pc[t] = "remove_expired"
    /\ RwLockFree
    /\ IF rwlock.poisoned
       THEN /\ Return(t, "remove_expired", "panic", 0)
            /\ UNCHANGED rwlock
       ELSE /\ rwlock' = [rwlock EXCEPT !.writer = t]
            /\ \E c \in NextEntries(Present(sessions)) :
                 frame' = [frame EXCEPT ![t] =
                    [NoFrame EXCEPT
                       !.todo = Present(sessions) \ {c},
                       !.cur = c,
                       !.before = sessions,
                       !.expired = {i \in Present(sessions) :
                                      is_expired(inner[sessions[i]], now)}]]
            /\ pc' = [pc EXCEPT ![t] = "remove_expired_retain"]
            /\ ret' = NoRet
    /\ UNCHANGED <<now, inner, mutex, sessions, inserted, jar, configs, rocket>>

\* The closure of remove_expired's retain on the record h: what it answers
\* (retain keeps the entry on TRUE and removes it on FALSE) ...
RemoveExpiredClosure(h) ==
    IF mutex[h].poisoned
    THEN FALSE
    ELSE IF is_expired(inner[h], now) THEN TRUE ELSE FALSE

\* ... and what it adds to removed.
RemoveExpiredCount(h) ==
    IF ~mutex[h].poisoned /\ is_expired(inner[h], now) THEN 1 ELSE 0

RemoveExpiredVisit(t) ==
    /\ pc[t] = "remove_expired_retain"
    /\ frame[t].cur # 0
    /\ MutexFree(sessions[frame[t].cur])
    /\ sessions' = IF RemoveExpiredClosure(sessions[frame[t].cur])
                   THEN sessions
                   ELSE [sessions EXCEPT ![frame[t].cur] = 0]
    /\ \E c \in NextEntries(frame[t].todo) :
         frame' = [frame EXCEPT
                     ![t].removed = @ + RemoveExpiredCount(sessions[frame[t].cur]),
                     ![t].todo = @ \ {c},
                     ![t].cur = c]
    /\ UNCHANGED <<now, inner, mutex, rwlock, pc, inserted, jar, configs, rocket>>
    /\ ret' = NoRet

RemoveExpiredReturn(t) ==
    /\ pc[t] = "remove_expired_retain"
    /\ frame[t].cur = 0
    /\ rwlock' = [rwlock EXCEPT !.writer = 0]
    /\ Return(t, "remove_expired", "Ok", frame[t].removed)
    /\ UNCHANGED <<now, inner, mutex, sessions, inserted, jar, configs, rocket>>

ClearLock(t) ==
    /\ pc[t] = "clear"
    /\ RwLockFree
    /\ IF rwlock.poisoned
       THEN /\ Return(t, "clear", "panic", 0)
            /\ UNCHANGED rwlock
       ELSE /\ rwlock' = [rwlock EXCEPT !.writer = t]
            /\ \E c \in NextEntries(Present(sessions)) :
                 frame' = [frame EXCEPT ![t] =
                    [NoFrame EXCEPT
                       !.todo = Present(sessions) \ {c},
                       !.cur = c,
                       !.before = sessions]]
            /\ pc' = [pc EXCEPT ![t] = "clear_retain"]
            /\ ret' = NoRet
    /\ UNCHANGED <<now, inner, mutex, sessions, inserted, jar, configs, rocket>>

\* The closure of clear's retain on an entry whose mutex is sound: invalidate
\* the record, answer false.
ClearVisit(t) ==
    /\ pc[t] = "clear_retain"
    /\ frame[t].cur # 0
    /\ MutexFree(sessions[frame[t].cur])
    /\ ~mutex[sessions[frame[t].cur]].poisoned
    /\ inner' = [inner EXCEPT ![sessions[frame[t].cur]] = invalidate(@)]
    /\ sessions' = [sessions EXCEPT ![frame[t].cur] = 0]
    /\ \E c \in NextEntries(frame[t].todo) :
         frame' = [frame EXCEPT ![t].todo = @ \ {c}, ![t].cur = c]
    /\ UNCHANGED <<now, mutex, rwlock, pc, inserted, jar, configs, rocket>>
    /\ ret' = NoRet

\* ... and on an entry whose mutex is poisoned: todo!() panics.  The entries
\* visited so far are gone, the others stay, and the unwinding drops the write
\* guard, which poisons the map's lock.
ClearPanic(t) ==
    /\ pc[t] = "clear_retain"
    /\ frame[t].cur # 0
    /\ MutexFree(sessions[frame[t].cur])
    /\ mutex[sessions[frame[t].cur]].poisoned
    /\ rwlock' = [writer |-> 0, poisoned |-> TRUE]
    /\ Return(t, "clear", "panic", 0)
    /\ UNCHANGED <<now, inner, mutex, sessions, inserted, jar, configs, rocket>>

ClearReturn(t) ==
    /\ pc[t] = "clear_retain"
    /\ frame[t].cur = 0
    /\ rwlock' = [rwlock EXCEPT !.writer = 0]
    /\ Return(t, "clear", "Ok", 0)
    /\ UNCHANGED <<now, inner, mutex, sessions, inserted, jar, configs, rocket>>

----------------------------------------------------------------------------
\* SessionStore::get<T>: map.get(id), then the record's lock for is_expired.

StoreGetCall(t, id) ==
    /\ pc[t] = "idle"
    /\ pc' = [pc EXCEPT ![t] = "store_get"]
    /\ frame' = [frame EXCEPT ![t] = [NoFrame EXCEPT !.id = id]]
    /\ UNCHANGED <<now, inner, mutex, sessions, rwlock, inserted, jar, configs, rocket>>
    /\ ret' = NoRet

\* let session_data = map.get(id): the read lock is dropped when get returns.
StoreGetRead(t) ==
    /\ pc[t] = "store_get"
    /\ RwLockFree
    /\ IF rwlock.poisoned
       THEN Return(t, "store_get", "panic", 0)
       ELSE IF sessions[frame[t].id] = 0
            THEN Return(t, "store_get", "None", 0)
            ELSE /\ frame' = [frame EXCEPT ![t].h = sessions[frame[t].id]]
                 /\ pc' = [pc EXCEPT ![t] = "store_get_lock"]
                 /\ ret' = NoRet
    /\ UNCHANGED <<now, inner, mutex, sessions, rwlock, inserted, jar, configs, rocket>>

\* What match data.lock() answers for the record h: Err(err) => None,
\* Ok(inner) => None if inner.is_expired(), else Some(T::from(data.clone())).
StoreGetResult(h) ==
    IF mutex[h].poisoned
    THEN "None"
    ELSE IF is_expired(inner[h], now) THEN "None" ELSE "Some"

\* Mutant of StoreGetLock: on a poisoned lock, go on to remove the session from
\* the map (as the TODO in the Err arm intends) with the guard inside err
\* still held.
StoreGetLock_RemoveOnErr(t) ==
    /\ pc[t] = "store_get_lock"
    /\ MutexFree(frame[t].h)
    /\ IF mutex[frame[t].h].poisoned
       THEN /\ mutex' = Lock(frame[t].h, t)
            /\ pc' = [pc EXCEPT ![t] = "remove"]
            /\ ret' = NoRet
            /\ UNCHANGED frame
       ELSE /\ Return(t, "store_get", StoreGetResult(frame[t].h),
                      IF StoreGetResult(frame[t].h) = "Some" THEN frame[t].h ELSE 0)
            /\ UNCHANGED mutex
    /\ UNCHANGED <<now, inner, sessions, rwlock, inserted, jar, configs, rocket>>

StoreGetLock(t) ==
    /\ pc[t] = "store_get_lock"
    /\ MutexFree(frame[t].h)
    /\ Return(t, "store_get", StoreGetResult(frame[t].h),
              IF StoreGetResult(frame[t].h) = "Some" THEN frame[t].h ELSE 0)
    /\ UNCHANGED <<now, inner, mutex, sessions, rwlock, inserted, jar, configs, rocket>>

----------------------------------------------------------------------------
\* CookieSession::from_request.  The request carries the cookies of the
\* client's jar; what the handler adds to or removes from request.cookies()
\* reaches the jar with the response.

\* The client presents a session cookie of its own making.
PresentCookie(id) ==
    /\ \A t \in Threads : pc[t] = "idle"
    /\ jar' = id
    /\ UNCHANGED <<now, inner, mutex, sessions, rwlock, pc, frame, inserted, configs, rocket>>
    /\ ret' = NoRet

RequestCall(t) ==
    /\ pc[t] = "idle"
    /\ pc' = [pc EXCEPT ![t] = "from_request"]
    /\ frame' = [frame EXCEPT ![t] = NoFrame]
    /\ UNCHANGED <<now, inner, mutex, sessions, rwlock, inserted, jar, configs, rocket>>
    /\ ret' = NoRet

\* request.cookies().get(cookie_name) is None: generate an id and create the
\* session.
FromRequestNew(t, h, config) ==
    /\ pc[t] = "from_request"
    /\ jar = 0
    /\ configs = << >>
    /\ rocket = NoState
    /\ ~inner[h].alive
    /\ inner' = [inner EXCEPT ![h] = SessionInner_new(GenId(h), config, now)]
    /\ frame' = [frame EXCEPT ![t] = [NoFrame EXCEPT !.h = h, !.id = GenId(h)]]
    /\ pc' = [pc EXCEPT ![t] = "from_request_insert"]
    /\ UNCHANGED <<now, mutex, sessions, rwlock, inserted, jar, configs, rocket>>
    /\ ret' = NoRet

\* session_store.insert(id, &session); Outcome::Success(session).  Nothing is
\* added to request.cookies().
FromRequestInsert(t) ==
    /\ pc[t] = "from_request_insert"
    /\ RwLockFree
    /\ IF rwlock.poisoned
       THEN /\ Return(t, "from_request", "panic", 0)
            /\ UNCHANGED sessions
       ELSE /\ sessions' = [sessions EXCEPT ![frame[t].id] = frame[t].h]
            /\ Return(t, "from_request", "Success", frame[t].h)
    /\ UNCHANGED <<now, inner, mutex, rwlock, inserted, jar, configs, rocket>>

\* The cookie is Some: session_store.get(cookie.value()), first the map.  On
\* None the cookie is removed and from_request starts again.
FromRequestGet(t) ==
    /\ pc[t] = "from_request"
    /\ jar # 0
    /\ RwLockFree
    /\ IF rwlock.poisoned
       THEN /\ Return(t, "from_request", "panic", 0)
            /\ UNCHANGED jar
       ELSE IF sessions[jar] = 0
            THEN /\ jar' = 0
                 /\ ret' = NoRet
                 /\ UNCHANGED <<pc, frame>>
            ELSE /\ frame' = [frame EXCEPT ![t].h = sessions[jar], ![t].id = jar]
                 /\ pc' = [pc EXCEPT ![t] = "from_request_get"]
                 /\ ret' = NoRet
                 /\ UNCHANGED jar
    /\ UNCHANGED <<now, inner, mutex, sessions, rwlock, inserted, configs, rocket>>

\* ... then the record's lock and is_expired: Some(cookie_session) is the
\* outcome; on None the cookie is removed and from_request starts again.
FromRequestGetLock(t) ==
    /\ pc[t] = "from_request_get"
    /\ MutexFree(frame[t].h)
    /\ IF StoreGetResult(frame[t].h) = "Some"
       THEN /\ Return(t, "from_request", "Success", frame[t].h)
            /\ UNCHANGED jar
       ELSE /\ jar' = 0
            /\ pc' = [pc EXCEPT ![t] = "from_request"]
            /\ frame' = [frame EXCEPT ![t] = NoFrame]
            /\ ret' = NoRet
    /\ UNCHANGED <<now, inner, mutex, sessions, rwlock, inserted, configs, rocket>>

----------------------------------------------------------------------------
\* Sessions and SessionFairing::on_attach.

\* Vec::remove(index), index counted from 0: the element at index is taken out
\* and those after it move down by one.  The caller checks index < len first:
\* Vec::remove panics otherwise.
Vec_remove(v, index) == SubSeq(v, 1, index) \o SubSeq(v, index + 2, Len(v))

\* Sessions::config: self.configs.push(Box::new(config)), before the fairing
\* is attached.  The k-th config registered has the cookie name k.
Sessions_config(expiration) ==
    /\ \A t \in Threads : pc[t] = "idle"
    /\ rocket = NoState
    /\ Len(configs) < MaxConfigs
    /\ configs' = Append(configs, [cookie_name |-> Len(configs) + 1,
                                   expiration |-> expiration])
    /\ UNCHANGED <<now, inner, mutex, sessions, rwlock, pc, frame, inserted, jar, rocket>>
    /\ ret' = NoRet

\* Rocket attaches the fairing, once.
OnAttachCall(t) ==
    /\ pc[t] = "idle"
    /\ rocket = NoState
    /\ pc' = [pc EXCEPT ![t] = "on_attach"]
    /\ frame' = [frame EXCEPT ![t] = NoFrame]
    /\ UNCHANGED <<now, inner, mutex, sessions, rwlock, inserted, jar, configs, rocket>>
    /\ ret' = NoRet

\* rocket.manage(store); the range 0..sessions.configs.len() of the loop is
\* evaluated once, here.
OnAttachManageStore(t) ==
    /\ pc[t] = "on_attach"
    /\ rocket' = [rocket EXCEPT !.store = TRUE]
    /\ frame' = [frame EXCEPT ![t].i = 0, ![t].len = Len(configs),
                              ![t].registered = configs]
    /\ pc' = [pc EXCEPT ![t] = "on_attach_loop"]
    /\ UNCHANGED <<now, inner, mutex, sessions, rwlock, inserted, jar, configs>>
    /\ ret' = NoRet

\* One turn of the loop whose index is within the Vec as it is now:
\* rocket = rocket.manage(sessions.configs.remove(i)).
OnAttachLoop(t) ==
    /\ pc[t] = "on_attach_loop"
    /\ frame[t].i < frame[t].len
    /\ frame[t].i < Len(configs)
    /\ rocket' = [rocket EXCEPT !.configs = Append(@, configs[frame[t].i + 1])]
    /\ configs' = Vec_remove(configs, frame[t].i)
    /\ frame' = [frame EXCEPT ![t].i = @ + 1]
    /\ UNCHANGED <<now, inner, mutex, sessions, rwlock, pc, inserted, jar>>
    /\ ret' = NoRet

\* One turn of the loop whose index is beyond the Vec, which the earlier
\* turns have shortened: Vec::remove panics (removal index is out of bounds).
OnAttachPanic(t) ==
    /\ pc[t] = "on_attach_loop"
    /\ frame[t].i < frame[t].len
    /\ frame[t].i >= Len(configs)
    /\ Return(t, "on_attach", "panic", 0)
    /\ UNCHANGED <<now, inner, mutex, sessions, rwlock, inserted, jar, configs, rocket>>

\* The range is exhausted: Ok(rocket).
OnAttachReturn(t) ==
    /\ pc[t] = "on_attach_loop"
    /\ frame[t].i = frame[t].len
    /\ Return(t, "on_attach", "Ok", 0)
    /\ UNCHANGED <<now, inner, mutex, sessions, rwlock, inserted, jar, configs, rocket>>

----------------------------------------------------------------------------
\* The callers' steps.

ClosureOps == {"update_time", "invalidate", "insert", "panic"}
MapOps == {"list", "get", "insert", "remove", "remove_expired", "clear"}

\* The steps of a call on the map or the facade, after the call.
StoreStep(t) ==
    \/ Map_list(t)
    \/ Map_get(t)
    \/ Map_insert(t)
    \/ Map_remove(t)
    \/ RemoveExpiredLock(t)
    \/ RemoveExpiredVisit(t)
    \/ RemoveExpiredReturn(t)
    \/ ClearLock(t)
    \/ ClearVisit(t)
    \/ ClearPanic(t)
    \/ ClearReturn(t)
    \/ StoreGetRead(t)
    \/ StoreGetLock(t)

\* Spec: one caller, whose calls follow one another, while the clock advances.
Caller == CHOOSE t \in Threads : TRUE

SeqCall(t) ==
    \/ \E h \in Handles, config \in Configs : NewSession(t, h, GenId(h), config)
    \/ \E h \in Handles, f \in ClosureOps \ {"insert"} : AccessCall(t, h, f, t)
    \/ \E op \in MapOps, id \in Ids, h \in Handles : MapCall(t, op, id, h)
    \/ \E id \in Ids : StoreGetCall(t, id)

Next ==
    \/ Tick
    \/ SeqCall(Caller)
    \/ StoreStep(Caller)
    \/ AccessLock(Caller) \/ AccessClosure(Caller) \/ AccessPanic(Caller)

Spec == Init /\ [][Next]_vars

----------------------------------------------------------------------------
\* SpecConc: callers run concurrently on a store that holds every record
\* under its generated id, as after one cookie-less from_request per record
\* (SessionInner::new, then SessionStore::insert).  As from_request does, a
\* caller inserts a record under the record's own id.

InitConc ==
    /\ now = 0
    /\ inner \in {f \in [Handles -> {SessionInner_new(GenId(h), c, 0) :
                                        h \in Handles, c \in Configs}] :
                    \A h \in Handles : f[h].id = GenId(h)}
    /\ mutex = [h \in Handles |-> [holder |-> 0, poisoned |-> FALSE]]
    /\ sessions = [i \in Ids |-> CHOOSE h \in Handles : GenId(h) = i]
    /\ rwlock = [writer |-> 0, poisoned |-> FALSE]
    /\ pc = [t \in Threads |-> "idle"]
    /\ frame = [t \in Threads |-> NoFrame]
    /\ ret = NoRet
    /\ inserted = [h \in Handles |-> {}]
    /\ jar = 0
    /\ configs = << >>
    /\ rocket = NoState

Mixed == 1 .. NMixed

ConcCall(t) ==
    \/ \E h \in Handles, f \in {"update_time", "panic"} : AccessCall(t, h, f, t)
    \/ \E op \in MapOps, h \in Handles : MapCall(t, op, GenId(h), h)
    \/ \E id \in Ids : StoreGetCall(t, id)

NextConc ==
    \/ \E t \in Mixed : ConcCall(t)
    \/ \E t \in Mixed : StoreStep(t)
    \/ \E t \in Mixed : AccessLock(t) \/ AccessClosure(t) \/ AccessPanic(t)

SpecConc == InitConc /\ [][NextConc]_vars

----------------------------------------------------------------------------
\* SpecRoles: on the same store every caller is inside a call at once, each in
\* a role: the first runs scoped accesses, the second remove_expired and clear,
\* the third the other operations of the store, and so on in turn.

Accessors == {t \in Threads : t % 3 = 1}
Sweepers == {t \in Threads : t % 3 = 2}
Users == {t \in Threads : t % 3 = 0}

RoleCall(t) ==
    \/ /\ t \in Accessors
       /\ \E h \in Handles, f \in {"update_time", "panic"} : AccessCall(t, h, f, t)
    \/ /\ t \in Sweepers
       /\ \E op \in {"remove_expired", "clear"} : MapCall(t, op, 0, 0)
    \/ /\ t \in Users
       /\ \E op \in {"list", "get", "insert", "remove"}, h \in Handles :
             MapCall(t, op, GenId(h), h)
    \/ /\ t \in Users
       /\ \E id \in Ids : StoreGetCall(t, id)

NextRoles ==
    \/ \E t \in Threads : RoleCall(t)
    \/ \E t \in Threads : StoreStep(t)
    \/ \E t \in Threads : AccessLock(t) \/ AccessClosure(t) \/ AccessPanic(t)

SpecRoles == InitConc /\ [][NextRoles]_vars

----------------------------------------------------------------------------
\* SpecAccess: the callers run scoped accesses concurrently on the records of
\* the store, each inserting under its own key.

NextAccess ==
    \/ \E t \in Threads, h \in Handles, f \in {"insert", "panic"} :
         AccessCall(t, h, f, t)
    \/ \E t \in Threads :
         \/ AccessLock(t)
         \/ AccessInsertRead(t)
         \/ AccessInsertWrite(t)
         \/ AccessPanic(t)

SpecAccess == InitConc /\ [][NextAccess]_vars

----------------------------------------------------------------------------
\* SpecIds: one caller creates records, reissues their ids with set_id and
\* inserts, gets and removes them under any id.

NextIds ==
    \/ \E h \in Handles, config \in Configs : NewSession(Caller, h, GenId(h), config)
    \/ \E h \in Handles, new_id \in Ids : SetIdCall(Caller, h, new_id)
    \/ AccessLock(Caller)
    \/ AccessSetId(Caller)
    \/ \E op \in {"get", "insert", "remove"}, id \in Ids, h \in Handles :
          MapCall(Caller, op, id, h)
    \/ Map_get(Caller)
    \/ Map_insert(Caller)
    \/ Map_remove(Caller)

SpecIds == Init /\ [][NextIds]_vars

----------------------------------------------------------------------------
\* SpecScoped: callers run scoped accesses, some of which panic, and facade
\* gets on the records of the store; a caller may keep the Result of its
\* access for a while.

NextScoped ==
    \/ \E t \in Mixed, h \in Handles, f \in {"update_time", "panic"} :
          AccessCall(t, h, f, t)
    \/ \E t \in Mixed, h \in Handles, f \in {"update_time", "panic"} :
          AccessCallKeep(t, h, f, t)
    \/ \E t \in Mixed, id \in Ids : StoreGetCall(t, id)
    \/ \E t \in Mixed :
          \/ AccessLock(t)
          \/ AccessClosure(t)
          \/ AccessPanic(t)
          \/ DropResult(t)
          \/ StoreGetRead(t)
          \/ StoreGetLock(t)

SpecScoped == InitConc /\ [][NextScoped]_vars

----------------------------------------------------------------------------
\* SpecAttrs: one caller inserts, removes and reads typed attributes of the
\* records of the store.

NextAttrs ==
    \/ \E h \in Handles, f \in {"insert", "remove", "get_attribute"}, key \in Keys,
          attribute \in AttrValues, T \in Types :
          AttrCall(Caller, h, f, key, attribute, T)
    \/ AccessLock(Caller)
    \/ AccessInsertRead(Caller)
    \/ AccessInsertWrite(Caller)
    \/ AccessRemove(Caller)
    \/ AccessGetAttribute(Caller)

SpecAttrs == InitConc /\ [][NextAttrs]_vars

----------------------------------------------------------------------------
\* SpecLive: the accessors and the sweepers on the records of the store, under
\* fair scheduling.  A caller that waits for a lock gets it if the lock is free
\* again and again (strong fairness of the steps that take a lock); a caller
\* that holds what it needs goes on (weak fairness of the other steps), so
\* every scoped access that has its lock ends.  Nothing obliges a caller to
\* make another call.

SweepStep(t) ==
    \/ RemoveExpiredLock(t)
    \/ RemoveExpiredVisit(t)
    \/ RemoveExpiredReturn(t)
    \/ ClearLock(t)
    \/ ClearVisit(t)
    \/ ClearPanic(t)
    \/ ClearReturn(t)

LiveCall(t) ==
    \/ /\ t \in Accessors
       /\ \E h \in Handles, f \in {"update_time", "panic"} : AccessCall(t, h, f, t)
    \/ /\ t \in Sweepers
       /\ \E op \in {"remove_expired", "clear"} : MapCall(t, op, 0, 0)

NextLive ==
    \/ \E t \in Accessors \cup Sweepers : LiveCall(t)
    \/ \E t \in Sweepers : SweepStep(t)
    \/ \E t \in Accessors : AccessLock(t) \/ AccessClosure(t) \/ AccessPanic(t)

Fairness ==
    /\ \A t \in Accessors :
         /\ SF_vars(AccessLock(t))
         /\ WF_vars(AccessClosure(t) \/ AccessPanic(t))
    /\ \A t \in Sweepers :
         /\ SF_vars(RemoveExpiredLock(t) \/ ClearLock(t))
         /\ SF_vars(RemoveExpiredVisit(t) \/ ClearVisit(t) \/ ClearPanic(t))
         /\ WF_vars(RemoveExpiredReturn(t) \/ ClearReturn(t))

SpecLive == InitConc /\ [][NextLive]_vars /\ Fairness

----------------------------------------------------------------------------
\* SpecRequest: one client sends requests, one after the other, to a handler
\* that takes a CookieSession, while the clock advances.

NextRequest ==
    \/ Tick
    \/ \E id \in Ids : PresentCookie(id)
    \/ RequestCall(Caller)
    \/ \E h \in Handles, config \in Configs : FromRequestNew(Caller, h, config)
    \/ FromRequestInsert(Caller)
    \/ FromRequestGet(Caller)
    \/ FromRequestGetLock(Caller)

SpecRequest == Init /\ [][NextRequest]_vars

----------------------------------------------------------------------------
\* SpecAttach: session configs are registered with Sessions, then Rocket
\* attaches the fairing.

NextAttach ==
    \/ \E expiration \in Configs : Sessions_config(expiration)
    \/ OnAttachCall(Caller)
    \/ OnAttachManageStore(Caller)
    \/ OnAttachLoop(Caller)
    \/ OnAttachPanic(Caller)
    \/ OnAttachReturn(Caller)

SpecAttach == Init /\ [][NextAttach]_vars

----------------------------------------------------------------------------
\* Properties of the store, one caller at a time (Spec)

\* A sweep has visited every entry and is about to return.
SweepDone(t) == pc[t] = "remove_expired_retain" /\ frame[t].cur = 0

\* C1: remove_expired() removes exactly the records that were expired when it
\* was called: when the sweep is done, no id that held an expired record holds
\* one, and every other id holds the record it held.
C1_RemovesExactlyExpired ==
    \A t \in Threads :
        SweepDone(t) =>
            \A i \in Ids :
                /\ i \in frame[t].expired => sessions[i] = 0
                /\ i \notin frame[t].expired => sessions[i] = frame[t].before[i]

\* C2: the count remove_expired() returns is the number of records the call
\* removed: the size of the map before the call minus its size after it.
C2_CountIsNumberRemoved ==
    \A t \in Threads :
        SweepDone(t) =>
            frame[t].removed =
                Cardinality(Present(frame[t].before)) - Cardinality(Present(sessions))

\* C3: a session whose config has no expiration duration, and which has not
\* been invalidated (its expires is still the "never expires" value), is not
\* reported expired, at any time and whatever was done to it.
C3_NeverExpiresByTime ==
    \A h \in Handles :
        (/\ inner[h].alive
         /\ expiration_duration(inner[h].config) = None
         /\ inner[h].expires = MIN_DATETIME)
            => ~is_expired(inner[h], now)

\* C4: SessionStore::get returns absent when no record is stored under the id,
\* absent when the stored record is expired, and a wrapper of the stored handle
\* when a record is stored and is not expired.
C4_StoreGetFiltersExpired ==
    [][\A t \in Threads :
          /\ (pc[t] = "store_get" /\ pc'[t] = "idle" /\ ~rwlock.poisoned)
                => (sessions[frame[t].id] = 0 /\ ret'.val = "None")
          /\ (pc[t] = "store_get_lock" /\ pc'[t] = "idle")
                => IF is_expired(inner[frame[t].h], now)
                   THEN ret'.val = "None"
                   ELSE ret'.val = "Some" /\ ret'.n = frame[t].h]_vars

\* A caller is about to lock a record whose mutex is poisoned.
TouchesPoisoned(t) ==
    \/ pc[t] = "store_get_lock" /\ mutex[frame[t].h].poisoned
    \/ /\ pc[t] \in {"remove_expired_retain", "clear_retain"}
       /\ frame[t].cur # 0
       /\ mutex[sessions[frame[t].cur]].poisoned

\* C10: a store operation that meets a record whose lock is poisoned hands its
\* caller a fault of its own (Err): the facade get does not answer absent, the
\* sweep and clear neither drop the record nor go on to a normal result, and
\* none of them panics or poisons the map's lock.
C10_PoisonedLockIsAFault ==
    [][\A t \in Threads :
          (TouchesPoisoned(t) /\ (pc'[t] # pc[t] \/ frame'[t] # frame[t]))
             => /\ ret' = [t |-> t, op |-> ret'.op, val |-> "Err", n |-> 0]
                /\ sessions' = sessions
                /\ ~rwlock'.poisoned]_vars

----------------------------------------------------------------------------
\* Properties of the store under concurrent callers (SpecConc)

\* C5: when clear() returns, the map holds no record and every record the map
\* held when clear() began is expired, whatever its configured duration.
C5_ClearLeavesAllExpired ==
    [][\A t \in Threads :
          (pc[t] = "clear_retain" /\ pc'[t] = "idle" /\ ret'.val = "Ok")
             => /\ Present(sessions') = {}
                /\ \A h \in Values(frame[t].before) : is_expired(inner'[h], now')]_vars

\* The lock a caller is waiting for is held by Holder(t) (0: by nobody, or the
\* caller waits for none).
MapLockRequest(t) ==
    pc[t] \in {"list", "get", "insert", "remove", "remove_expired", "clear",
               "store_get"}

InRetain(t) == pc[t] \in {"remove_expired_retain", "clear_retain"}

Holder(t) ==
    IF MapLockRequest(t) THEN rwlock.writer
    ELSE IF pc[t] \in {"access_lock", "store_get_lock"} THEN mutex[frame[t].h].holder
    ELSE IF InRetain(t) /\ frame[t].cur # 0 THEN mutex[sessions[frame[t].cur]].holder
    ELSE 0

HoldsRecordLock(t) == \E h \in Handles : mutex[h].holder = t

\* The caller's next step can be taken now.
Runs(t) ==
    ENABLED (StoreStep(t) \/ AccessLock(t) \/ AccessClosure(t) \/ AccessPanic(t))

\* The caller can take its next step, or waits for a lock whose holder can, or
\* whose holder waits for one whose holder can, and so on.
RECURSIVE Progresses(_, _)
Progresses(t, n) ==
    \/ Runs(t)
    \/ /\ n > 0
       /\ Holder(t) \notin {0, t}
       /\ Progresses(Holder(t), n - 1)

OnOtherId(t, h) ==
    \/ pc[t] \in {"get", "insert", "remove", "store_get"} /\ sessions[frame[t].id] # h
    \/ pc[t] = "store_get_lock" /\ frame[t].h # h

\* Caller t can go on without caller a taking a step: it can take its next
\* step, or waits on a chain of lock holders that does not lead to a.
RECURSIVE ProgressesWithout(_, _, _)
ProgressesWithout(t, a, n) ==
    \/ Runs(t)
    \/ /\ n > 0
       /\ Holder(t) \notin {0, t, a}
       /\ ProgressesWithout(Holder(t), a, n - 1)

\* C8 as claimed: while a scoped access on a session A is in progress, a store
\* operation on another id B can complete without the access ending, also when
\* a remove_expired() or clear() is waiting for A's record lock.
C8_UnrelatedNeverBlocked ==
    \A a \in Threads, t \in Threads :
        (pc[a] = "access_closure" /\ OnOtherId(t, frame[a].h))
            => ProgressesWithout(t, a, NThreads)

\* C8 as amended: while a scoped access on A is in progress, a store operation
\* on another id B can complete without the access ending unless a
\* remove_expired() or clear() holds the map's lock: what the operation waits
\* for, if anything, is that sweep (which may itself wait for A's lock), never
\* the access.
C8_BlockedOnlyBySweep ==
    \A a \in Threads, t \in Threads :
        (pc[a] = "access_closure" /\ OnOtherId(t, frame[a].h))
            => \/ ProgressesWithout(t, a, NThreads)
               \/ Holder(t) \notin {0, t, a} /\ InRetain(Holder(t))

\* C8, witness: a get of another record has returned it while the access on A
\* is in progress.
C8_Witness ==
    \E a \in Threads :
        /\ pc[a] = "access_closure"
        /\ ret.t \notin {0, a}
        /\ ret.op \in {"get", "store_get"}
        /\ ret.val = "Some"
        /\ ret.n # frame[a].h

\* C9: a scoped access waits for its own record's lock only: it can take the
\* lock whenever no other access holds that record, whatever accesses are in
\* progress on other records and whatever the store is doing; inside, it holds
\* that one lock and not the map's.
C9_AccessesDoNotBlockEachOther ==
    \A t \in Threads :
        /\ (/\ pc[t] = "access_lock"
            /\ \A u \in Threads \ {t} :
                 ~(pc[u] = "access_closure" /\ frame[u].h = frame[t].h))
              => ENABLED AccessLock(t)
        /\ pc[t] = "access_closure"
              => /\ rwlock.writer # t
                 /\ \A h \in Handles : mutex[h].holder = t <=> h = frame[t].h

\* C9, witness: two accesses on different records are in progress at once.
C9_Witness ==
    \E t \in Threads, u \in Threads :
        /\ pc[t] = "access_closure"
        /\ pc[u] = "access_closure"
        /\ frame[t].h # frame[u].h

----------------------------------------------------------------------------
\* Properties of concurrent scoped accesses (SpecAccess)

\* C6: no insert is lost: every key whose insert into a record has returned is
\* in the record's attributes, however the accesses interleave.
C6_NoLostInsert ==
    \A h \in Handles : inserted[h] \subseteq DOMAIN inner[h].attributes

\* C6, witness: every caller has inserted its key into the same record.
C6_Witness ==
    \E h \in Handles : inserted[h] = Keys /\ DOMAIN inner[h].attributes = Keys

----------------------------------------------------------------------------
\* Properties of the session record (Spec)

\* C11: invalidate() sets expires to created, and the record is expired in the
\* state it leaves, whatever the record's state and configured duration were:
\* for the invalidate() a scoped access runs and for the one clear() runs.
C11_InvalidateExpiresAtOnce ==
    [][\A t \in Threads :
          /\ (pc[t] = "access_closure" /\ frame[t].f = "invalidate" /\ pc'[t] = "idle")
                => /\ inner'[frame[t].h].expires = inner[frame[t].h].created
                   /\ is_expired(inner'[frame[t].h], now')
          /\ (pc[t] = "clear_retain" /\ sessions' # sessions)
                => /\ inner'[sessions[frame[t].cur]].expires
                        = inner[sessions[frame[t].cur]].created
                   /\ is_expired(inner'[sessions[frame[t].cur]], now')]_vars

\* C11, witness: an access has returned from invalidating a record with a
\* finite duration at the very time the record was created.
C11_Witness ==
    /\ ret.op = "access"
    /\ ret.val = "Ok"
    /\ \E h \in Handles :
         /\ inner[h].alive
         /\ expiration_duration(inner[h].config) # None
         /\ inner[h].expires = inner[h].created
         /\ inner[h].created = now

\* C12: a record whose expires is finite (not the "never expires" value) is
\* not expired at any time strictly before expires, and is expired at expires
\* and at every time after it.
C12_ExpiredFromExpiresOn ==
    \A h \in Handles :
        (inner[h].alive /\ inner[h].expires # MIN_DATETIME)
            => \A t \in 0 .. MaxTime + 2 :
                 /\ t < inner[h].expires => ~is_expired(inner[h], t)
                 /\ t >= inner[h].expires => is_expired(inner[h], t)

\* C12, witness: the clock has reached the finite expires of a record that was
\* created earlier and never invalidated.
C12_Witness ==
    \E h \in Handles :
        /\ inner[h].alive
        /\ expiration_duration(inner[h].config) # None
        /\ inner[h].created < inner[h].expires
        /\ inner[h].expires = now
        /\ is_expired(inner[h], now)

\* C14: get, insert and remove of the map are those of a finite map from id to
\* handle.  get(id) answers the handle stored under id (the handle itself, of
\* an expired record too), or None, and changes nothing; insert(id, h) puts h
\* under id and changes neither another entry nor any record, the replaced one
\* included; remove(id) answers true exactly when id held a record, leaves id
\* empty and the other entries as they were.
C14_MapIsFiniteMap ==
    [][\A t \in Threads :
          /\ (pc[t] = "get" /\ pc'[t] = "idle" /\ ~rwlock.poisoned)
                => /\ IF sessions[frame[t].id] # 0
                      THEN ret'.val = "Some" /\ ret'.n = sessions[frame[t].id]
                      ELSE ret'.val = "None"
                   /\ sessions' = sessions
                   /\ inner' = inner
          /\ (pc[t] = "insert" /\ pc'[t] = "idle" /\ ~rwlock.poisoned)
                => /\ sessions'[frame[t].id] = frame[t].h
                   /\ \A j \in Ids \ {frame[t].id} : sessions'[j] = sessions[j]
                   /\ inner' = inner
          /\ (pc[t] = "remove" /\ pc'[t] = "idle" /\ ~rwlock.poisoned)
                => /\ ret'.val = (IF sessions[frame[t].id] # 0 THEN "true" ELSE "false")
                   /\ sessions'[frame[t].id] = 0
                   /\ \A j \in Ids \ {frame[t].id} : sessions'[j] = sessions[j]
                   /\ inner' = inner]_vars

\* C14, witness: get has returned the handle of a stored record that is
\* expired, while another id holds another record.
C14_Witness ==
    /\ ret.op = "get"
    /\ ret.val = "Some"
    /\ is_expired(inner[ret.n], now)
    /\ \E i \in Ids, j \in Ids :
         sessions[i] = ret.n /\ sessions[j] \notin {0, ret.n}

\* A scoped access of caller t is about to return from update_time().
UpdateTimeStep(t) ==
    pc[t] = "access_closure" /\ frame[t].f = "update_time" /\ pc'[t] = "idle"

\* What update_time() does apart from moving last_accessed: with a finite
\* duration d expires becomes last_accessed + d, with none expires stays;
\* created, id and attributes stay.
UpdateTimeFrame(old, new) ==
    /\ new.last_accessed = now
    /\ \A d \in expiration_duration(old.config) : new.expires = new.last_accessed + d
    /\ expiration_duration(old.config) = None => new.expires = old.expires
    /\ new.created = old.created
    /\ new.id = old.id
    /\ new.attributes = old.attributes

\* C15 as claimed: update_time() strictly advances last_accessed, to the
\* current time, and has the effect above on the other fields.
C15_UpdateTimeStrictlyAdvances ==
    [][\A t \in Threads :
          UpdateTimeStep(t)
             => /\ inner'[frame[t].h].last_accessed > inner[frame[t].h].last_accessed
                /\ UpdateTimeFrame(inner[frame[t].h], inner'[frame[t].h])]_vars

\* C15 as amended: update_time() sets last_accessed to the current time, which
\* is not before its old value (and is equal to it when the clock shows the
\* time of the last access), and has the effect above on the other fields.
C15_UpdateTimeSetsNow ==
    [][\A t \in Threads :
          UpdateTimeStep(t)
             => /\ inner'[frame[t].h].last_accessed >= inner[frame[t].h].last_accessed
                /\ UpdateTimeFrame(inner[frame[t].h], inner'[frame[t].h])]_vars

\* C15, witness: update_time() has returned on a record with a finite duration
\* that was created earlier: last_accessed is now, expires one duration later.
C15_Witness ==
    /\ ret.op = "access"
    /\ ret.val = "Ok"
    /\ \E h \in Handles :
         /\ inner[h].alive
         /\ inner[h].created < now
         /\ inner[h].last_accessed = now
         /\ \E d \in expiration_duration(inner[h].config) : inner[h].expires = now + d

\* The record is as invalidate() leaves it: expires is created.  No other
\* operation produces this: new and update_time set expires to a time after
\* created, or to the "never expires" value.
Invalidated(h) == inner[h].alive /\ inner[h].expires = inner[h].created

\* C19: invalidation is permanent: a record that invalidate() has been called
\* on is expired after every later step, whatever the step does to it, and the
\* facade get does not return it.
C19_InvalidationIsPermanent ==
    [][\A h \in Handles :
          Invalidated(h)
             => /\ is_expired(inner'[h], now')
                /\ ~(ret'.op = "store_get" /\ ret'.val = "Some" /\ ret'.n = h)]_vars

----------------------------------------------------------------------------
\* Properties of the ids (SpecIds)

\* C13: the id is unique among the stored sessions: no two records stored in
\* the map have the same id(), after any sequence of insert, remove and set_id.
C13_StoredIdsUnique ==
    \A i \in Ids, j \in Ids :
        (sessions[i] # 0 /\ sessions[j] # 0 /\ sessions[i] # sessions[j])
            => inner[sessions[i]].id # inner[sessions[j]].id

----------------------------------------------------------------------------
\* Properties of the scoped access (SpecScoped)

\* C16: a scoped access releases the record's lock on every exit path: a
\* record's lock is held only by a caller that is inside the closure of its
\* access to that record, so that once the access call has ended the caller
\* holds no lock on the record and a later access or store operation can
\* take it.
C16_LockReleasedOnEveryExit ==
    \A h \in Handles :
        mutex[h].holder # 0
            => /\ pc[mutex[h].holder] \in {"access_closure", "access_insert"}
               /\ frame[mutex[h].holder].h = h

----------------------------------------------------------------------------
\* Properties of the attributes (SpecAttrs)

\* C17: after insert(key, v), get_attribute::<T>(key) is v for the type T of v
\* and absent for every other T, also when the insert overwrote a value of
\* another type; after remove(key) it is absent for every T; and a call of
\* get_attribute::<T>(key) answers a value exactly when key was inserted, not
\* removed since, and T is the type of the value inserted last.
C17_GetAttributeIsTyped ==
    [][\A t \in Threads :
          /\ (pc[t] = "access_insert" /\ pc'[t] = "idle")
                => \A T \in Types :
                     get_attribute(inner'[frame[t].h], frame[t].key, T)
                        = IF T = frame[t].attr.type THEN Some(frame[t].attr.val) ELSE None
          /\ (pc[t] = "access_closure" /\ frame[t].f = "remove" /\ pc'[t] = "idle")
                => \A T \in Types :
                     get_attribute(inner'[frame[t].h], frame[t].key, T) = None
          /\ (pc[t] = "access_closure" /\ frame[t].f = "get_attribute" /\ pc'[t] = "idle")
                => ret'.val =
                     IF /\ frame[t].key \in inserted[frame[t].h]
                        /\ inner[frame[t].h].attributes[frame[t].key].type = frame[t].ty
                     THEN "Some" ELSE "None"]_vars

----------------------------------------------------------------------------
\* Properties of the sweeps under fair scheduling (SpecLive)

\* C18: every remove_expired() or clear() that was started runs to completion:
\* it eventually returns to its caller, the map's lock released.
C18_SweepRunsToCompletion ==
    \A t \in Threads :
        (pc[t] \in {"remove_expired", "clear"})
            ~> (/\ ret.t = t
                /\ ret.op \in {"remove_expired", "clear"}
                /\ ret.val = "Ok"
                /\ rwlock.writer # t)

----------------------------------------------------------------------------
\* Properties of from_request (SpecRequest)

\* C20: from_request on a request without a session cookie ends with the new
\* session stored under its generated id and with a cookie of that id sent to
\* the client; and from_request on a request whose cookie is the id of a
\* stored session that is not expired yields that session.
C20_NewSessionSendsCookie ==
    [][\A t \in Threads :
          /\ (pc[t] = "from_request_insert" /\ pc'[t] = "idle" /\ ~rwlock.poisoned)
                => /\ ret'.val = "Success"
                   /\ ret'.n = frame[t].h
                   /\ sessions'[inner[frame[t].h].id] = frame[t].h
                   /\ jar' = inner[frame[t].h].id
          /\ (/\ pc[t] = "from_request_get"
              /\ pc'[t] # pc[t]
              /\ ~mutex[frame[t].h].poisoned
              /\ ~is_expired(inner[frame[t].h], now))
                => /\ ret'.val = "Success"
                   /\ ret'.n = sessions[jar]]_vars

----------------------------------------------------------------------------
\* Properties of on_attach (SpecAttach)

\* C21: whatever the number of configs registered, on_attach ends with Ok and
\* not with a fault; the store is managed; every registered config has been
\* handed to rocket.manage exactly once; and the configs list is empty.
C21_OnAttachManagesEveryConfig ==
    [][\A t \in Threads :
          (pc[t] = "on_attach_loop" /\ pc'[t] = "idle")
             => /\ ret'.val = "Ok"
                /\ rocket'.store
                /\ Len(rocket'.configs) = Len(frame[t].registered)
                /\ \A k \in 1 .. Len(frame[t].registered) :
                     \E m \in 1 .. Len(rocket'.configs) :
                        rocket'.configs[m] = frame[t].registered[k]
                /\ configs' = << >>]_vars

====
